---- MODULE Spec2Model ----
(***************************************************************************)
(* vinyasa: a disk memoization decorator (cache) and a sequential script   *)
(* pipeline (run / run_script) sharing one namespace (GLOBAL_CONTEXT).     *)
(*                                                                         *)
(* Text is modelled as a sequence of string tokens (characters or          *)
(* indivisible lexemes), so that concatenation, repr() and the separators  *)
(* repr() inserts are computed as Python computes them.                    *)
(***************************************************************************)
EXTENDS Integers, Sequences, FiniteSets, TLC

VARIABLES
    cache_dir,       \* files of Path(gettempdir(), "vinyasa"): file name -> content
    func,            \* the callable the stage script currently defines (its code object)
    GLOBAL_CONTEXT,  \* the module-level dict every stage is exec'd against
    stdout,          \* number of lines the callable's body has printed in this process
    ev,              \* the operation that made the last step, with its outcome
    returned,        \* history: call identities that returned normally since the last clear
    made,            \* history: file name -> value returned by the miss that created it
    scripts,         \* argument list of the pipeline invocation in progress
    idx,             \* number of entries of scripts the loop of run has consumed
    status,          \* "idle" | "running" | "done" | "failed"
    assigned,        \* history: name -> latest value assigned by a stage of this invocation
    trace,           \* history: the stages this invocation has executed, in order
    procs,           \* concurrent invocations: each one's position inside wrapper
    loading          \* run_script reading a stage file: the file's text and what is compiled

vars == <<cache_dir, func, GLOBAL_CONTEXT, stdout, ev, returned, made,
          scripts, idx, status, assigned, trace, procs, loading>>

\* what the operations of one sequential process never touch
aux == <<procs, loading>>

----------------------------------------------------------------------------
(* Bounds *)

\* most cache files the model lets the directory hold before a miss is refused
MaxEntries == 2
\* most lines the callable's body prints in one process
MaxPrinted == 1
\* longest argument list of run
MaxScripts == 3

----------------------------------------------------------------------------
(* Finite maps *)

EmptyMap == <<>>

Put(m, k, v) == [x \in (DOMAIN m) \cup {k} |-> IF x = k THEN v ELSE m[x]]

----------------------------------------------------------------------------
(* Text *)

\* sep.join(parts)
RECURSIVE Join(_, _)
Join(sep, parts) ==
    IF parts = <<>> THEN <<>>
    ELSE IF Len(parts) = 1 THEN parts[1]
    ELSE parts[1] \o sep \o Join(sep, Tail(parts))

\* Argument values: an int, a str, and an instance of a user class whose
\* __repr__ shows its two fields separated by ", ".
IntVal(d) == <<"int", d>>
StrVal(s) == <<"str", s>>
SpanVal(lo, hi) == <<"Span", lo, hi>>

\* repr(value)
repr(v) ==
    CASE v[1] = "int" -> <<v[2]>>
      [] v[1] = "str" -> <<"'", v[2], "'">>
      [] v[1] = "Span" -> <<v[2], ",", " ", v[3]>>
      [] v[1] = "tuple" -> <<"(", v[2], ",", " ", v[3], ")">>
      [] OTHER -> <<"<", v[1], ">">>

\* repr of the tuple args: "(a, b)", "(a,)" for one element, "()" for none
tuple_repr(args) ==
    <<"(">> \o Join(<<",", " ">>, [i \in 1..Len(args) |-> repr(args[i])])
            \o (IF Len(args) = 1 THEN <<",">> ELSE <<>>) \o <<")">>

\* repr of the dict kwargs: the items in insertion order, the order in which
\* the keyword arguments were written at the call site
dict_repr(kwargs) ==
    LET item(i) == <<"'", kwargs[i][1], "'", ":", " ">> \o repr(kwargs[i][2])
    IN  <<"{">> \o Join(<<",", " ">>, [i \in 1..Len(kwargs) |-> item(i)]) \o <<"}">>

\* repr of the bytes object co_code: one opcode byte and one oparg byte per instruction
RECURSIVE code_bytes(_)
code_bytes(code) ==
    IF code = <<>> THEN <<>>
    ELSE <<Head(code).op, Head(code).arg>> \o code_bytes(Tail(code))

bytes_repr(code) == <<"b", "'">> \o code_bytes(code) \o <<"'">>

\* hashlib.sha256(data).hexdigest(): a collision-resistant digest, modelled as
\* an injective tagging of the data it digests
sha256_hexdigest(data) == <<"sha256">> \o data

----------------------------------------------------------------------------
(* pickle: the serialized form is a stream of opcodes, read by a stack machine *)

None == <<"NoneType">>

\* The mutant of pickle_dump: a tuple is written as its first element only.
pickle_dump_first(value) ==
    CASE value[1] = "int" -> <<"PROTO", "K", value[2], ".">>
      [] value[1] = "tuple" -> <<"PROTO", "K", value[2], ".">>
      [] OTHER -> <<"PROTO", "N", ".">>

\* pickle.dump(value, file): the bytes written
pickle_dump(value) ==
    CASE value[1] = "int" -> <<"PROTO", "K", value[2], ".">>
      [] value[1] = "tuple" -> <<"PROTO", "K", value[2], "K", value[3], "TUPLE2", ".">>
      [] OTHER -> <<"PROTO", "N", ".">>

\* whether pickle can serialize the value: an open file handle cannot be pickled
picklable(value) == value[1] \in {"int", "tuple", "NoneType"}

RECURSIVE unpickle(_, _)
unpickle(blob, stack) ==
    CASE blob = <<>> -> <<"EOFError">>
      [] blob[1] = "PROTO" -> unpickle(Tail(blob), stack)
      [] blob[1] = "N" -> unpickle(Tail(blob), <<None>> \o stack)
      [] blob[1] = "K" -> unpickle(Tail(Tail(blob)), <<IntVal(blob[2])>> \o stack)
      [] blob[1] = "TUPLE2" ->
             unpickle(Tail(blob), <<<<"tuple", stack[2][2], stack[1][2]>>>> \o Tail(Tail(stack)))
      [] blob[1] = "." -> stack[1]
      [] OTHER -> <<"UnpicklingError">>

\* pickle.load(file): the value rebuilt from the bytes
pickle_load(blob) == unpickle(blob, <<>>)

\* whether pickle.load returned a value rather than raising
loaded(value) == value[1] \notin {"EOFError", "UnpicklingError"}

----------------------------------------------------------------------------
(* The memoized callable: load_data of the example stage, as a code object *)

Ins(op, arg) == [op |-> op, arg |-> arg]

\* an oparg byte as a 1-based position in co_consts / co_names
Index(arg) == CASE arg = "0" -> 1 [] arg = "1" -> 2 [] arg = "2" -> 3 [] arg = "3" -> 4

\* print(...); value_to_return = <literal>; print(...); return value_to_return
CodeExample ==
    << Ins("PRINT", "1"), Ins("LOAD_CONST", "2"), Ins("STORE_FAST", "0"),
       Ins("PRINT", "3"), Ins("LOAD_FAST", "0"), Ins("RETURN_VALUE", "0") >>

\* the body with operations added and reordered:
\* global loaded; loaded = <literal>; print(...); return (<literal>, <literal>)
CodeReshaped ==
    << Ins("LOAD_CONST", "2"), Ins("STORE_GLOBAL", "0"), Ins("PRINT", "1"),
       Ins("LOAD_CONST", "2"), Ins("LOAD_CONST", "2"), Ins("BUILD_TUPLE", "2"),
       Ins("RETURN_VALUE", "0") >>

Codes == {CodeExample, CodeReshaped}

\* a body that fails: print(...); raise RuntimeError
CodeRaises == << Ins("PRINT", "1"), Ins("RAISE", "0") >>

\* a body whose value cannot be serialized: print(...); return open(path)
CodeHandle == << Ins("PRINT", "1"), Ins("OPEN", "0"), Ins("RETURN_VALUE", "0") >>

FailingCodes == {CodeRaises, CodeHandle}

Handle == <<"TextIOWrapper">>

Literals == {"5", "7"}

\* co_consts of load_data with value_to_return = literal
Consts(literal) ==
    << None, StrVal("Loading data..."), IntVal(literal), StrVal("Data loaded!") >>

co_names == << "loaded" >>

Function(code, literal) ==
    [name |-> "load_data", co_code |-> code, co_consts |-> Consts(literal)]

Functions == {Function(c, l) : c \in Codes, l \in Literals}

\* func(*args, **kwargs): the body interpreted against the globals g.
\* The result is the returned value, the globals and the number of lines printed.
RECURSIVE eval_code(_, _, _, _, _, _)
eval_code(code, consts, stack, fast, g, printed) ==
    IF code = <<>> THEN [ret |-> None, g |-> g, printed |-> printed, raised |-> FALSE]
    ELSE LET op == Head(code).op
             arg == Head(code).arg
             rest == Tail(code)
         IN CASE op = "PRINT" -> eval_code(rest, consts, stack, fast, g, printed + 1)
              [] op = "LOAD_CONST" ->
                     eval_code(rest, consts, <<consts[Index(arg)]>> \o stack, fast, g, printed)
              [] op = "STORE_FAST" ->
                     eval_code(rest, consts, Tail(stack), Head(stack), g, printed)
              [] op = "LOAD_FAST" ->
                     eval_code(rest, consts, <<fast>> \o stack, fast, g, printed)
              [] op = "STORE_GLOBAL" ->
                     eval_code(rest, consts, Tail(stack), fast,
                               Put(g, co_names[Index(arg)], Head(stack)), printed)
              [] op = "BUILD_TUPLE" ->
                     eval_code(rest, consts,
                               <<<<"tuple", stack[2][2], stack[1][2]>>>> \o Tail(Tail(stack)),
                               fast, g, printed)
              [] op = "OPEN" ->
                     eval_code(rest, consts, <<Handle>> \o stack, fast, g, printed)
              [] op = "RAISE" ->
                     [ret |-> <<"RuntimeError">>, g |-> g, printed |-> printed, raised |-> TRUE]
              [] op = "RETURN_VALUE" ->
                     [ret |-> Head(stack), g |-> g, printed |-> printed, raised |-> FALSE]

call(f, args, kwargs, g) == eval_code(f.co_code, f.co_consts, <<>>, None, g, 0)

----------------------------------------------------------------------------
(* cache(func).wrapper *)

\* The mutant of key_data: the whole code object, constants included, is hashed.
key_data_with_consts(f, args, kwargs) ==
    <<f.name>> \o tuple_repr(args) \o dict_repr(kwargs) \o bytes_repr(f.co_code)
        \o <<f.co_consts[3][2]>>

\* The mutant of key_data: the bytecode is left out of the key.
key_data_without_code(f, args, kwargs) ==
    <<f.name>> \o tuple_repr(args) \o dict_repr(kwargs)

\* f"{func.__name__}{args}{kwargs}{bytecode}"
key_data(f, args, kwargs) ==
    <<f.name>> \o tuple_repr(args) \o dict_repr(kwargs) \o bytes_repr(f.co_code)

\* cache_dir / f"{key}.pkl"
cache_file(f, args, kwargs) == sha256_hexdigest(key_data(f, args, kwargs)) \o <<".pkl">>

\* what wrapper leaves when it misses and func returned or raised r: the file
\* is opened for writing, which creates it empty, and pickle.dump writes it
store(file, r, dir) ==
    IF r.raised
    THEN [hit |-> FALSE, file |-> file, result |-> r.ret, raised |-> TRUE,
          dir |-> dir, g |-> r.g, printed |-> r.printed]
    ELSE IF ~picklable(r.ret)
    THEN [hit |-> FALSE, file |-> file, result |-> <<"PicklingError">>, raised |-> TRUE,
          dir |-> Put(dir, file, <<>>), g |-> r.g, printed |-> r.printed]
    ELSE [hit |-> FALSE, file |-> file, result |-> r.ret, raised |-> FALSE,
          dir |-> Put(dir, file, pickle_dump(r.ret)), g |-> r.g, printed |-> r.printed]

\* what wrapper leaves when the file exists: pickle.load of its content
replay(file, dir, g) ==
    [hit |-> TRUE, file |-> file, result |-> pickle_load(dir[file]),
     raised |-> ~loaded(pickle_load(dir[file])), dir |-> dir, g |-> g, printed |-> 0]

\* The mutant of wrapper: the callable runs before the cache is consulted.
wrapper_runs_first(f, args, kwargs, dir, g) ==
    LET file == cache_file(f, args, kwargs)
        r == call(f, args, kwargs, g)
    IN  IF file \in DOMAIN dir
        THEN [replay(file, dir, g) EXCEPT !.g = r.g, !.printed = r.printed]
        ELSE store(file, r, dir)

\* The mutant of wrapper: the entry is never consulted.
wrapper_never_reads(f, args, kwargs, dir, g) ==
    store(cache_file(f, args, kwargs), call(f, args, kwargs, g), dir)

\* The mutant of wrapper: a hit refreshes the entry with what the callable returns now.
wrapper_refreshes(f, args, kwargs, dir, g) ==
    LET file == cache_file(f, args, kwargs)
    IN  IF file \in DOMAIN dir
        THEN [replay(file, dir, g) EXCEPT
                 !.dir = Put(dir, file, pickle_dump(call(f, args, kwargs, g).ret))]
        ELSE store(file, call(f, args, kwargs, g), dir)

\* The mutant of wrapper: the file is opened for writing before func is called.
wrapper_opens_first(f, args, kwargs, dir, g) ==
    LET file == cache_file(f, args, kwargs)
        r == call(f, args, kwargs, g)
    IN  IF file \in DOMAIN dir THEN replay(file, dir, g)
        ELSE IF r.raised THEN [store(file, r, dir) EXCEPT !.dir = Put(dir, file, <<>>)]
        ELSE store(file, r, dir)

\* One call of the wrapper with the cache directory holding dir and the
\* callable's globals being g: whether it was a hit, the file it used, the value
\* returned or the error raised, and the directory, globals and printed lines
\* it leaves.
wrapper(f, args, kwargs, dir, g) ==
    LET file == cache_file(f, args, kwargs)
    IN  IF file \in DOMAIN dir
        THEN replay(file, dir, g)
        ELSE store(file, call(f, args, kwargs, g), dir)

\* The mutant of glob_pkl: a different suffix is matched.
glob_pickle(dir) == {file \in DOMAIN dir : file[Len(file)] = ".pickle"}

\* cache_dir.glob("*.pkl")
glob_pkl(dir) == {file \in DOMAIN dir : file[Len(file)] = ".pkl"}

\* the directory after every globbed file is unlinked
unlink_all(dir) == [file \in (DOMAIN dir) \ glob_pkl(dir) |-> dir[file]]

----------------------------------------------------------------------------
(* Inputs *)

One == IntVal("1")

\* the calls a stage makes: positional arguments and keyword arguments in the
\* order written at the call site
Site(args, kwargs) == [args |-> args, kwargs |-> kwargs]

ExampleSite == Site(<<>>, << <<"path", StrVal("data.csv")>> >>)

CallSites ==
    { ExampleSite,
      Site(<<SpanVal("1", "1"), One>>, <<>>),
      Site(<<One, SpanVal("1", "1")>>, <<>>),
      Site(<<>>, << <<"a", One>>, <<"b", One>> >>),
      Site(<<>>, << <<"b", One>>, <<"a", One>> >>) }

\* what the key is meant to tell apart: the callable's name, the arguments and
\* the opcode stream
Identity(f, site) ==
    [name |-> f.name, args |-> site.args, kwargs |-> site.kwargs, co_code |-> f.co_code]

\* the keyword arguments as a mapping, the order of writing forgotten
Mapping(kwargs) == {kwargs[i] : i \in 1..Len(kwargs)}

Event(kind) ==
    [kind |-> kind, site |-> Site(<<>>, <<>>), hit |-> FALSE, result |-> None,
     file |-> <<>>, script |-> "", removed |-> {}, raised |-> FALSE, pending |-> 0]

\* no concurrent invocation is inside wrapper; no stage file is being read
NoProcs == <<>>
NotLoading == [pc |-> "closed", text |-> <<>>, lines |-> <<>>, script_str |-> <<>>]

----------------------------------------------------------------------------
(* State after import of vinyasa in a fresh process, with an empty cache directory *)

Init ==
    /\ cache_dir = EmptyMap
    /\ func = Function(CodeExample, "5")
    /\ GLOBAL_CONTEXT = EmptyMap
    /\ stdout = 0
    /\ ev = Event("start")
    /\ returned = {}
    /\ made = EmptyMap
    /\ scripts = <<>>
    /\ idx = 0
    /\ status = "idle"
    /\ assigned = EmptyMap
    /\ trace = <<>>
    /\ procs = NoProcs
    /\ loading = NotLoading

----------------------------------------------------------------------------
(* Operations on the cache *)

\* a stage statement calls the memoized callable: load_data(*args, **kwargs)
Call(site) ==
    LET o == wrapper(func, site.args, site.kwargs, cache_dir, GLOBAL_CONTEXT)
    IN  /\ o.hit \/ (Cardinality(DOMAIN cache_dir) < MaxEntries /\ stdout < MaxPrinted)
        /\ cache_dir' = o.dir
        /\ GLOBAL_CONTEXT' = o.g
        /\ stdout' = stdout + o.printed
        /\ ev' = [Event("call") EXCEPT !.site = site, !.hit = o.hit, !.raised = o.raised,
                                       !.result = o.result, !.file = o.file]
        /\ returned' = IF o.raised THEN returned ELSE returned \cup {Identity(func, site)}
        /\ made' = IF o.hit \/ o.raised THEN made ELSE Put(made, o.file, o.result)
        /\ UNCHANGED <<func, scripts, idx, status, assigned, trace, aux>>

\* vinyasa clear, run from another shell
clear ==
    /\ cache_dir' = unlink_all(cache_dir)
    /\ returned' = {}
    /\ made' = [file \in DOMAIN unlink_all(cache_dir) |-> made[file]]
    /\ ev' = [Event("clear") EXCEPT !.removed = glob_pkl(cache_dir)]
    /\ UNCHANGED <<func, GLOBAL_CONTEXT, stdout, scripts, idx, status, assigned, trace, aux>>

\* the user edits the literal of load_data in the stage script
EditLiteral(literal) ==
    /\ func.co_consts # Consts(literal)
    /\ func' = [func EXCEPT !.co_consts = Consts(literal)]
    /\ ev' = Event("edit_literal")
    /\ UNCHANGED <<cache_dir, GLOBAL_CONTEXT, stdout, returned, made,
                   scripts, idx, status, assigned, trace, aux>>

\* the user edits the operations of load_data in the stage script
EditCode(code) ==
    /\ func.co_code # code
    /\ func' = [func EXCEPT !.co_code = code]
    /\ ev' = Event("edit_code")
    /\ UNCHANGED <<cache_dir, GLOBAL_CONTEXT, stdout, returned, made,
                   scripts, idx, status, assigned, trace, aux>>

\* a new process imports vinyasa: GLOBAL_CONTEXT = {}
NewProcess ==
    /\ GLOBAL_CONTEXT' = EmptyMap
    /\ stdout' = 0
    /\ scripts' = <<>>
    /\ idx' = 0
    /\ status' = "idle"
    /\ assigned' = EmptyMap
    /\ trace' = <<>>
    /\ ev' = Event("start")
    /\ UNCHANGED <<cache_dir, func, returned, made, aux>>

Next ==
    \/ \E site \in CallSites : Call(site)
    \/ clear
    \/ \E literal \in Literals : EditLiteral(literal)
    \/ \E code \in Codes : EditCode(code)
    \/ NewProcess

Spec == Init /\ [][Next]_vars

\* the calls and the bodies of the specification with failing callables
FailSites == {ExampleSite, Site(<<One, SpanVal("1", "1")>>, <<>>)}

NextFail ==
    \/ \E site \in FailSites : Call(site)
    \/ clear
    \/ \E literal \in Literals : EditLiteral(literal)
    \/ \E code \in Codes \cup FailingCodes : EditCode(code)
    \/ NewProcess

SpecFail == Init /\ [][NextFail]_vars

----------------------------------------------------------------------------
(* Stage scripts *)

Const(target, value) == [op |-> "const", target |-> target, source |-> "", value |-> value]
Copy(target, source) == [op |-> "copy", target |-> target, source |-> source, value |-> None]
CallStmt(target) == [op |-> "call", target |-> target, source |-> "", value |-> None]
Raise == [op |-> "raise", target |-> "", source |-> "", value |-> None]

\* the scripts that exist in the working directory, as their top-level statements
ScriptNames == {"load_data.py", "preprocess.py", "train.py", "broken.py"}

Files ==
    [name \in ScriptNames |->
        CASE name = "load_data.py" ->
                 \* path = "data.csv"; a = load_data(path=path)
                 << Const("path", StrVal("data.csv")), CallStmt("a") >>
          [] name = "preprocess.py" ->
                 \* clean = a; a = 0
                 << Copy("clean", "a"), Const("a", IntVal("0")) >>
          [] name = "train.py" ->
                 \* model = clean
                 << Copy("model", "clean") >>
          [] name = "broken.py" ->
                 \* partial = 1; raise RuntimeError
                 << Const("partial", One), Raise >>]

\* what may be written on the command line: the scripts, and one that does not exist
ScriptArgs == ScriptNames \cup {"missing.py"}

RECURSIVE SeqsUpTo(_, _)
SeqsUpTo(S, n) ==
    IF n = 0 THEN {<<>>}
    ELSE LET shorter == SeqsUpTo(S, n - 1)
         IN  shorter \cup {Append(q, x) : q \in {r \in shorter : Len(r) = n - 1}, x \in S}

ArgLists == SeqsUpTo(ScriptArgs, MaxScripts) \ {<<>>}

\* script_path.exists()
exists(script) == script \in DOMAIN Files

\* The state a stage executes in and leaves: the namespace, the cache directory,
\* the lines printed, the history of calls and of assignments, and whether an
\* uncaught error ended it.
Env(g, dir, printed, ret, mk, asg) ==
    [g |-> g, dir |-> dir, printed |-> printed, returned |-> ret, made |-> mk,
     assigned |-> asg, raised |-> FALSE]

Bind(e, name, value) ==
    [e EXCEPT !.g = Put(e.g, name, value), !.assigned = Put(e.assigned, name, value)]

\* the top-level statements of a compiled stage, executed in order
RECURSIVE exec_code(_, _, _)
exec_code(stmts, f, e) ==
    IF stmts = <<>> THEN e
    ELSE LET st == Head(stmts)
         IN CASE st.op = "const" -> exec_code(Tail(stmts), f, Bind(e, st.target, st.value))
              [] st.op = "copy" ->
                     IF st.source \in DOMAIN e.g
                     THEN exec_code(Tail(stmts), f, Bind(e, st.target, e.g[st.source]))
                     ELSE [e EXCEPT !.raised = TRUE]    \* NameError
              [] st.op = "call" ->
                     LET o == wrapper(f, ExampleSite.args, ExampleSite.kwargs, e.dir, e.g)
                         after == [e EXCEPT !.g = o.g, !.dir = o.dir,
                                            !.printed = e.printed + o.printed,
                                            !.returned = IF o.raised THEN e.returned
                                                         ELSE e.returned \cup {Identity(f, ExampleSite)},
                                            !.made = IF o.hit \/ o.raised THEN e.made
                                                     ELSE Put(e.made, o.file, o.result)]
                     IN  IF o.raised THEN [after EXCEPT !.raised = TRUE]
                         ELSE exec_code(Tail(stmts), f, Bind(after, st.target, o.result))
              [] st.op = "raise" -> [e EXCEPT !.raised = TRUE]

Builtins == <<"module", "builtins">>

\* exec(code, globals): globals gains __builtins__ when it has none
exec(stmts, f, e) ==
    exec_code(stmts, f,
              [e EXCEPT !.g = IF "__builtins__" \in DOMAIN e.g THEN e.g
                              ELSE Put(e.g, "__builtins__", Builtins)])

\* The mutant of run_script: the stage is executed against a copy of the namespace.
run_script_on_copy(script, f, e) ==
    IF ~exists(script) THEN e
    ELSE LET o == exec(Files[script], f, e)
         IN  [o EXCEPT !.g = e.g]

\* The mutant of run_script: an error of the stage is caught and the loop goes on.
run_script_swallows(script, f, e) ==
    IF ~exists(script) THEN e
    ELSE [exec(Files[script], f, e) EXCEPT !.raised = FALSE]

\* run_script(script): the state the stage leaves
run_script(script, f, e) ==
    IF ~exists(script) THEN e
    ELSE exec(Files[script], f, e)

----------------------------------------------------------------------------
(* Operations of the pipeline *)

\* run(scripts, full_script) up to the loop: save_full_script opens every
\* script of the list, and open raises for one that does not exist. The history
\* file and the dump file that save_history and save_full_script write are read
\* by no operation of the cache or of the pipeline and are not part of the state.
RunStart(list, full_script) ==
    /\ status \in {"idle", "done", "failed"}
    /\ LET opened == ~full_script \/ \A i \in 1..Len(list) : exists(list[i])
       IN  /\ status' = IF opened THEN "running" ELSE "failed"
           /\ scripts' = IF opened THEN list ELSE <<>>
    /\ idx' = 0
    /\ assigned' = EmptyMap
    /\ trace' = <<>>
    /\ ev' = Event("run")
    /\ UNCHANGED <<cache_dir, func, GLOBAL_CONTEXT, stdout, returned, made, aux>>

\* one iteration of the loop of run: run_script(script). An uncaught error of
\* the stage leaves run, whose locals (scripts, the loop position) are gone.
RunScript ==
    /\ status = "running"
    /\ idx < Len(scripts)
    /\ LET script == scripts[idx + 1]
           o == run_script(script, func,
                           Env(GLOBAL_CONTEXT, cache_dir, stdout, returned, made, assigned))
       IN  /\ GLOBAL_CONTEXT' = o.g
           /\ cache_dir' = o.dir
           /\ stdout' = o.printed
           /\ returned' = o.returned
           /\ made' = o.made
           /\ assigned' = o.assigned
           /\ status' = IF o.raised THEN "failed" ELSE "running"
           /\ idx' = IF o.raised THEN 0 ELSE idx + 1
           /\ scripts' = IF o.raised THEN <<>> ELSE scripts
           /\ trace' = IF o.raised THEN <<>>
                       ELSE IF exists(script) THEN Append(trace, script) ELSE trace
           /\ ev' = [Event(IF ~exists(script) THEN "skipped"
                           ELSE IF o.raised THEN "raised" ELSE "executed")
                     EXCEPT !.script = script,
                            !.pending = IF o.raised THEN Len(scripts) - idx - 1 ELSE 0]
    /\ UNCHANGED <<func, aux>>

\* The mutant of RunEnd: run returns before its loop is over.
RunEnd_early ==
    /\ status = "running"
    /\ status' = "done"
    /\ scripts' = <<>>
    /\ idx' = 0
    /\ trace' = <<>>
    /\ ev' = Event("finished")
    /\ UNCHANGED <<cache_dir, func, GLOBAL_CONTEXT, stdout, returned, made, assigned, aux>>

\* the loop of run is over: the execution time is printed and run returns
RunEnd ==
    /\ status = "running"
    /\ idx = Len(scripts)
    /\ status' = "done"
    /\ scripts' = <<>>
    /\ idx' = 0
    /\ trace' = <<>>
    /\ ev' = Event("finished")
    /\ UNCHANGED <<cache_dir, func, GLOBAL_CONTEXT, stdout, returned, made, assigned, aux>>

NextRun ==
    \/ \E list \in ArgLists, full_script \in BOOLEAN : RunStart(list, full_script)
    \/ RunScript
    \/ RunEnd
    \/ NewProcess

SpecRun == Init /\ [][NextRun]_vars

----------------------------------------------------------------------------
(* Loading a stage: run_script from open to compile, one file at a time *)

\* the longest file content
MaxChars == 4

\* the characters of a file: a letter and the two line terminators
Chars == {"x", "\n", "\r"}

Texts == SeqsUpTo(Chars, MaxChars)

\* what a file opened in text mode delivers: "\r\n" and "\r" are read as "\n"
RECURSIVE universal_newlines(_)
universal_newlines(text) ==
    IF text = <<>> THEN <<>>
    ELSE IF text[1] = "\r"
    THEN IF Len(text) > 1 /\ text[2] = "\n"
         THEN <<"\n">> \o universal_newlines(Tail(Tail(text)))
         ELSE <<"\n">> \o universal_newlines(Tail(text))
    ELSE <<text[1]>> \o universal_newlines(Tail(text))

\* f.readlines(): the lines of the text, each with its terminator
RECURSIVE readlines(_, _)
readlines(text, line) ==
    IF text = <<>> THEN (IF line = <<>> THEN <<>> ELSE <<line>>)
    ELSE IF text[1] = "\n"
    THEN <<Append(line, "\n")>> \o readlines(Tail(text), <<>>)
    ELSE readlines(Tail(text), Append(line, text[1]))

\* open(script_path) on a file holding text
OpenScript(text) ==
    /\ loading.pc = "closed"
    /\ loading' = [loading EXCEPT !.pc = "open", !.text = text]
    /\ UNCHANGED <<cache_dir, func, GLOBAL_CONTEXT, stdout, ev, returned, made,
                   scripts, idx, status, assigned, trace, procs>>

\* f.readlines()
ReadLines ==
    /\ loading.pc = "open"
    /\ loading' = [loading EXCEPT !.pc = "read",
                                  !.lines = readlines(universal_newlines(loading.text), <<>>)]
    /\ UNCHANGED <<cache_dir, func, GLOBAL_CONTEXT, stdout, ev, returned, made,
                   scripts, idx, status, assigned, trace, procs>>

\* script_str = "\n".join(lines), handed to compile
JoinCompile ==
    /\ loading.pc = "read"
    /\ loading' = [loading EXCEPT !.pc = "compiled",
                                  !.script_str = Join(<<"\n">>, loading.lines)]
    /\ UNCHANGED <<cache_dir, func, GLOBAL_CONTEXT, stdout, ev, returned, made,
                   scripts, idx, status, assigned, trace, procs>>

NextLoad ==
    \/ \E text \in Texts : OpenScript(text)
    \/ ReadLines
    \/ JoinCompile

SpecLoad == Init /\ [][NextLoad]_vars

\* C19: the text handed to compile is the content of the file.
C19_CompiledTextIsFileContent ==
    loading.pc = "compiled" => loading.script_str = loading.text

----------------------------------------------------------------------------
(* Concurrent callers: processes sharing the cache directory, each inside one
   call of wrapper, taken one file operation at a time, and a clear run from
   another shell *)

\* the number of processes calling load_data
NumProcs == 2

Procs == 1..NumProcs

\* a process entering wrapper: the key is computed and nothing else is done yet
Entered(site) ==
    [pc |-> "exists", site |-> site,
     file |-> cache_file(func, site.args, site.kwargs),
     result |-> None, error |-> "", unlinked |-> FALSE]

\* wrapper is called: lines 89 to 92
Enter(p, site) ==
    /\ p \in DOMAIN procs => procs[p].pc = "returned"
    /\ procs' = Put(procs, p, Entered(site))
    /\ UNCHANGED <<cache_dir, func, GLOBAL_CONTEXT, stdout, ev, returned, made,
                   scripts, idx, status, assigned, trace, loading>>

\* if cache_file.exists()
Exists(p) ==
    /\ p \in DOMAIN procs /\ procs[p].pc = "exists"
    /\ procs' = [procs EXCEPT ![p].pc = IF procs[p].file \in DOMAIN cache_dir
                                        THEN "read" ELSE "func"]
    /\ UNCHANGED <<cache_dir, func, GLOBAL_CONTEXT, stdout, ev, returned, made,
                   scripts, idx, status, assigned, trace, loading>>

\* open(cache_file, "rb") and pickle.load(file): open raises when the file is
\* gone, pickle.load raises when the content is not a whole pickle
Read(p) ==
    /\ p \in DOMAIN procs /\ procs[p].pc = "read"
    /\ procs' = [procs EXCEPT ![p] =
                    IF procs[p].file \notin DOMAIN cache_dir
                    THEN [@ EXCEPT !.pc = "returned", !.error = "FileNotFoundError"]
                    ELSE LET value == pickle_load(cache_dir[procs[p].file])
                         IN  IF loaded(value)
                             THEN [@ EXCEPT !.pc = "returned", !.result = value]
                             ELSE [@ EXCEPT !.pc = "returned", !.error = value[1]]]
    /\ UNCHANGED <<cache_dir, func, GLOBAL_CONTEXT, stdout, ev, returned, made,
                   scripts, idx, status, assigned, trace, loading>>

\* result = func(*args, **kwargs), in the process's own memory
Func(p) ==
    /\ p \in DOMAIN procs /\ procs[p].pc = "func"
    /\ procs' = [procs EXCEPT ![p].pc = "open",
                              ![p].result = call(func, procs[p].site.args,
                                                 procs[p].site.kwargs, EmptyMap).ret]
    /\ UNCHANGED <<cache_dir, func, GLOBAL_CONTEXT, stdout, ev, returned, made,
                   scripts, idx, status, assigned, trace, loading>>

\* open(cache_file, "wb"): the file is created, or emptied when it exists
OpenWrite(p) ==
    /\ p \in DOMAIN procs /\ procs[p].pc = "open"
    /\ cache_dir' = Put(cache_dir, procs[p].file, <<>>)
    /\ procs' = [procs EXCEPT ![p].pc = "dump"]
    /\ UNCHANGED <<func, GLOBAL_CONTEXT, stdout, ev, returned, made,
                   scripts, idx, status, assigned, trace, loading>>

\* pickle.dump(result, file) and the close of the file; bytes written to a file
\* that was unlinked meanwhile are in no file of the directory
Dump(p) ==
    /\ p \in DOMAIN procs /\ procs[p].pc = "dump"
    /\ cache_dir' = IF procs[p].unlinked THEN cache_dir
                    ELSE Put(cache_dir, procs[p].file, pickle_dump(procs[p].result))
    /\ procs' = [procs EXCEPT ![p].pc = "returned"]
    /\ UNCHANGED <<func, GLOBAL_CONTEXT, stdout, ev, returned, made,
                   scripts, idx, status, assigned, trace, loading>>

\* vinyasa clear from another shell while the processes are inside wrapper
Unlink ==
    /\ cache_dir # EmptyMap
    /\ cache_dir' = unlink_all(cache_dir)
    /\ procs' = [p \in DOMAIN procs |->
                    IF procs[p].pc = "dump" THEN [procs[p] EXCEPT !.unlinked = TRUE]
                    ELSE procs[p]]
    /\ UNCHANGED <<func, GLOBAL_CONTEXT, stdout, ev, returned, made,
                   scripts, idx, status, assigned, trace, loading>>

NextConc ==
    \/ \E p \in Procs, site \in FailSites : Enter(p, site)
    \/ \E p \in Procs : Exists(p)
    \/ \E p \in Procs : Read(p)
    \/ \E p \in Procs : Func(p)
    \/ \E p \in Procs : OpenWrite(p)
    \/ \E p \in Procs : Dump(p)
    \/ Unlink

SpecConc == Init /\ [][NextConc]_vars

\* C16: no call ends in an error of pickle.load on a file that was not written
\* in full, and a file that holds a whole pickle keeps its content as long as
\* it exists.
C16_NoTornReads ==
    /\ [](\A p \in DOMAIN procs :
              procs[p].error \notin {"EOFError", "UnpicklingError"})
    /\ [][\A file \in (DOMAIN cache_dir) \cap (DOMAIN cache_dir') :
              loaded(pickle_load(cache_dir[file]))
                  => cache_dir'[file] = cache_dir[file]]_vars

\* C17: no call ends in an error of open on a file that is not there.
C17_AbsenceIsAMiss ==
    \A p \in DOMAIN procs : procs[p].error # "FileNotFoundError"

----------------------------------------------------------------------------
(* Properties of the cache, checked under Spec *)

\* the value the current body would return for the arguments of the last call
Fresh(site) == call(func, site.args, site.kwargs, GLOBAL_CONTEXT).ret

\* the textual representations of the arguments of a call: the positional ones
\* in order, the keyword ones by name
ArgumentTexts(args, kwargs) ==
    [positional |-> [i \in 1..Len(args) |-> repr(args[i])],
     keyword |-> {<<kwargs[i][1], repr(kwargs[i][2])>> : i \in 1..Len(kwargs)}]

\* C1: once a call has returned normally for a callable name, arguments and
\* opcode stream, every later call with the same four components, a new process
\* included and with no clear in between, is a hit on a stored entry and does
\* not run the callable again.
C1_RepeatedCallHits ==
    [][(ev'.kind = "call" /\ Identity(func, ev'.site) \in returned)
          => /\ ev'.hit
             /\ ev'.file = cache_file(func, ev'.site.args, ev'.site.kwargs)
             /\ ev'.file \in DOMAIN cache_dir
             /\ stdout' = stdout]_vars

\* a hit in a process in which the callable's body has never run
C1_Witness ==
    /\ ev.kind = "call" /\ ev.hit
    /\ stdout = 0
    /\ Identity(func, ev.site) \in returned

\* C2: a hit runs nothing of the callable: the namespace, the callable's output
\* and the stored entries are what they were, and the value returned is the
\* stored one.
C2_HitElidesSideEffects ==
    [][(ev'.kind = "call" /\ ev'.hit)
          => /\ GLOBAL_CONTEXT' = GLOBAL_CONTEXT
             /\ stdout' = stdout
             /\ cache_dir' = cache_dir
             /\ ev'.result = pickle_load(cache_dir[ev'.file])]_vars

\* a hit on a callable whose body would have printed and written a global
C2_Witness ==
    /\ ev.kind = "call" /\ ev.hit
    /\ func.co_code = CodeReshaped
    /\ "loaded" \notin DOMAIN GLOBAL_CONTEXT
    /\ stdout = 0

\* C3: when the callable differs from the version that made the entry only in
\* a constant, a call with the cached arguments has the same key, is a hit and
\* returns the value the old version computed, without running the new body.
C3_LiteralBlindness ==
    [][\A old \in Functions :
          LET file == cache_file(old, ev'.site.args, ev'.site.kwargs)
          IN  (/\ ev'.kind = "call"
               /\ old.name = func.name /\ old.co_code = func.co_code
               /\ old.co_consts # func.co_consts
               /\ file \in DOMAIN cache_dir
               /\ made[file] = call(old, ev'.site.args, ev'.site.kwargs, GLOBAL_CONTEXT).ret)
              => /\ ev'.file = file
                 /\ ev'.hit
                 /\ ev'.result = made[file]
                 /\ stdout' = stdout]_vars

\* a hit whose value is not the one the current body returns
C3_Witness ==
    /\ ev.kind = "call" /\ ev.hit
    /\ ev.result # Fresh(ev.site)

\* C4: a call is served from the cache only if a call of the same callable
\* whose arguments have the same textual representations made the entry: calls
\* whose argument representations differ never share an entry.
C4_ArgumentSensitivity ==
    [][(ev'.kind = "call" /\ ev'.hit)
          => \E id \in returned :
                 /\ id.name = func.name /\ id.co_code = func.co_code
                 /\ ArgumentTexts(id.args, id.kwargs)
                        = ArgumentTexts(ev'.site.args, ev'.site.kwargs)]_vars

\* C5: a call whose positional arguments and keyword mapping equal those of a
\* call that has returned is a hit, whatever the order the keywords are written in.
C5_KeywordOrderIrrelevant ==
    [][(/\ ev'.kind = "call"
        /\ \E id \in returned :
               /\ id.name = func.name /\ id.co_code = func.co_code
               /\ id.args = ev'.site.args
               /\ Mapping(id.kwargs) = Mapping(ev'.site.kwargs))
          => ev'.hit]_vars

C7_RoundTrip ==
    [][(ev'.kind = "call" /\ ev'.hit) => ev'.result = made[ev'.file]]_vars

\* a hit that rebuilt a tuple
C7_Witness ==
    /\ ev.kind = "call" /\ ev.hit
    /\ ev.result[1] = "tuple"
    /\ ev.result = made[ev.file]

\* C8: clear leaves none of the entries that existed before it, and the call
\* that follows a clear is a miss that runs the callable and stores an entry.
C8_ClearIsTotal ==
    [][/\ ev'.kind = "clear" => (DOMAIN cache_dir') \cap (DOMAIN cache_dir) = {}
       /\ (ev.kind = "clear" /\ ev'.kind = "call")
              => /\ ~ev'.hit
                 /\ stdout' > stdout
                 /\ ev'.file \in DOMAIN cache_dir'
                 /\ pickle_load(cache_dir'[ev'.file]) = ev'.result]_vars

\* a clear that removed as many entries as the directory may hold
C8_Witness ==
    /\ ev.kind = "clear"
    /\ Cardinality(ev.removed) >= 2
    /\ cache_dir = EmptyMap

----------------------------------------------------------------------------
(* Properties of the pipeline, checked under SpecRun *)

UserNames(g) == (DOMAIN g) \ {"__builtins__"}

\* C9: every name a stage of the invocation has assigned is in the namespace
\* with its latest value when the later stages execute, and a stage that reads
\* a name gets the value the namespace holds for it.
C9_NamespacePropagation ==
    /\ [](\A name \in DOMAIN assigned :
              name \in DOMAIN GLOBAL_CONTEXT /\ GLOBAL_CONTEXT[name] = assigned[name])
    /\ [][(ev'.kind = "executed" /\ ev'.script = "train.py")
             => GLOBAL_CONTEXT'["model"] = GLOBAL_CONTEXT["clean"]]_vars

\* the third stage has read what the second assigned, which had read and then
\* overwritten what the first assigned
C9_Witness ==
    /\ status = "running" /\ idx = 3
    /\ ev.kind = "executed" /\ ev.script = "train.py"
    /\ {"a", "clean", "model"} \subseteq DOMAIN assigned
    /\ GLOBAL_CONTEXT["a"] = IntVal("0")
    /\ GLOBAL_CONTEXT["model"] = IntVal("5")

\* C10: while an invocation runs, the namespace holds no name but those its
\* own stages have assigned; it is empty when the invocation starts.
C10_NamespaceIsolation ==
    status = "running" => UserNames(GLOBAL_CONTEXT) \subseteq DOMAIN assigned

\* the steps of the loop of run
StageKinds == {"executed", "skipped", "raised"}

\* the stage the loop of run is about to process
AtStage == status = "running" /\ idx < Len(scripts)

\* what executing the stage the loop is at would leave
StageOutcome ==
    exec(Files[scripts[idx + 1]], func,
         Env(GLOBAL_CONTEXT, cache_dir, stdout, returned, made, assigned))

\* C11: when the stage the loop is at raises, the step ends the invocation as
\* failed with that stage's error, and once an invocation has failed no stage is
\* executed or skipped and it does not finish normally: the only pipeline step
\* that can follow is the start of another invocation.
C11_FailFast ==
    /\ [][(AtStage /\ ev'.kind \in StageKinds /\ exists(scripts[idx + 1]) /\ StageOutcome.raised)
             => /\ status' = "failed"
                /\ ev'.kind = "raised" /\ ev'.script = scripts[idx + 1]
                /\ scripts' = <<>>]_vars
    /\ [][status = "failed" => ev'.kind \notin StageKinds \cup {"finished"}]_vars
    /\ [](ev.kind = "raised" => status = "failed")

\* a stage raised while stages after it were still to come
C11_Witness ==
    /\ status = "failed"
    /\ ev.kind = "raised" /\ ev.script = "broken.py"
    /\ ev.pending > 0

\* C12: a stage whose file does not exist is skipped, leaving the namespace,
\* the cache and the output as they were and the loop at the next stage, and an
\* invocation whose list holds such a stage reaches its loop with the whole list.
C12_MissingScriptSkipped ==
    /\ [][(AtStage /\ ev'.kind \in StageKinds /\ ~exists(scripts[idx + 1]))
             => /\ ev'.kind = "skipped"
                /\ GLOBAL_CONTEXT' = GLOBAL_CONTEXT /\ cache_dir' = cache_dir
                /\ stdout' = stdout
                /\ status' = "running" /\ idx' = idx + 1 /\ scripts' = scripts]_vars
    /\ [][\A list \in ArgLists, full_script \in BOOLEAN :
              (RunStart(list, full_script) /\ \E i \in 1..Len(list) : ~exists(list[i]))
                  => status' = "running" /\ scripts' = list]_vars

\* C13: from every state, starting an invocation with the dump option leaves
\* what starting it without the option leaves.
C13_DumpOptionIsNeutral ==
    [][\A list \in ArgLists : RunStart(list, TRUE) => RunStart(list, FALSE)]_vars

\* C18: the stages executed so far are the existing ones among the first idx
\* arguments, in argument order and once per occurrence; every step of the loop
\* processes the argument at the loop position and moves on by one; and the
\* invocation finishes normally only from the end of the list with every
\* existing stage executed, and ends as done only by finishing.
C18_SequentialOrdering ==
    /\ [](status = "running" =>
              /\ idx <= Len(scripts)
              /\ trace = SelectSeq(SubSeq(scripts, 1, idx), exists))
    /\ [][ev'.kind \in StageKinds =>
              /\ AtStage
              /\ ev'.script = scripts[idx + 1]
              /\ ev'.kind # "raised" => idx' = idx + 1 /\ scripts' = scripts]_vars
    /\ [][ev'.kind = "finished" =>
              /\ status = "running" /\ idx = Len(scripts)
              /\ trace = SelectSeq(scripts, exists)
              /\ status' = "done"]_vars
    /\ [][(status' = "done" /\ status # "done") => ev'.kind = "finished"]_vars

\* the loop is over a list of three arguments with a missing one in the middle:
\* the same existing stage was executed before and after it, once per occurrence
C18_Witness ==
    /\ status = "running" /\ idx = 3 /\ Len(scripts) = 3
    /\ scripts[2] = "missing.py" /\ scripts[1] = scripts[3]
    /\ trace = <<scripts[1], scripts[3]>>
    /\ ev.kind = "executed"

----------------------------------------------------------------------------
(* Properties of the cache with failing callables, checked under SpecFail *)

\* C14: across every step, a file of the cache directory keeps its content
\* unless the step is a clear, which leaves the directory empty, and a file that
\* appears was created by a call that missed on that file.
C14_EntryLifecycle ==
    [][/\ \A file \in DOMAIN cache_dir :
              \/ file \in DOMAIN cache_dir' /\ cache_dir'[file] = cache_dir[file]
              \/ ev'.kind = "clear" /\ cache_dir' = EmptyMap
       /\ \A file \in (DOMAIN cache_dir') \ (DOMAIN cache_dir) :
              ev'.kind = "call" /\ ~ev'.hit /\ ev'.file = file]_vars

\* a hit on an entry whose callable now returns another value than the stored
\* one, while another entry exists
C14_Witness ==
    /\ ev.kind = "call" /\ ev.hit /\ ~ev.raised
    /\ call(func, ev.site.args, ev.site.kwargs, GLOBAL_CONTEXT).ret # ev.result
    /\ Cardinality(DOMAIN cache_dir) = 2

\* C15: a miss that fails because the value cannot be serialized leaves no file
\* for its key, and every file of the cache directory loads to a value.
C15_NoPartialEntry ==
    /\ [][(ev'.kind = "call" /\ ~ev'.hit /\ ev'.raised /\ func.co_code = CodeHandle)
             => ev'.file \notin DOMAIN cache_dir']_vars
    /\ [](\A file \in DOMAIN cache_dir : loaded(pickle_load(cache_dir[file])))

\* C20: a call that finds no entry and whose callable raises executes the
\* callable, raises to the caller and leaves the cache directory as it was; no
\* file ever exists for a key of the raising callable, so that every call of it
\* is such a miss.
C20_FailureIsNotCached ==
    /\ [][(ev'.kind = "call" /\ func.co_code = CodeRaises)
             => /\ ~ev'.hit /\ ev'.raised /\ ev'.result = <<"RuntimeError">>
                /\ stdout' = stdout + 1
                /\ cache_dir' = cache_dir
                /\ returned' = returned]_vars
    /\ [](\A site \in FailSites, literal \in Literals :
              cache_file(Function(CodeRaises, literal), site.args, site.kwargs)
                  \notin DOMAIN cache_dir)

\* the callable raised on a miss while the directory held an entry of an
\* earlier version of it
C20_Witness ==
    /\ ev.kind = "call" /\ ~ev.hit /\ ev.raised
    /\ func.co_code = CodeRaises
    /\ stdout = 1
    /\ cache_dir # EmptyMap

====
